---- MODULE Spec2Model ----
(***************************************************************************)
(* Model of analyze_results.py: a single forward pass that reads           *)
(* gas_results.csv, splits the rows on str.isnumeric of "Message Length",  *)
(* fits gas on length (all numeric rows, then the rows of length <= 200),  *)
(* saves gas_analysis.png, prints the regression report and finally dumps  *)
(* the non-numeric rows.                                                   *)
(*                                                                         *)
(* Cell texts are sequences of one-character strings.  Numbers computed by *)
(* the regression are exact rationals (the script uses binary doubles; the *)
(* model abstracts from rounding error).                                   *)
(***************************************************************************)
EXTENDS Integers, Sequences, FiniteSets, TLC

VARIABLES pc, df, columns, numeric_rows, fullFit, small_df, smallFit,
          format_rows, figure, imageWrites, stdout, fitCalls, error

vars == <<pc, df, columns, numeric_rows, fullFit, small_df, smallFit,
          format_rows, figure, imageWrites, stdout, fitCalls, error>>

----------------------------------------------------------------------------
(* Bounds *)

MaxRows == 4
MaxPts == 3

----------------------------------------------------------------------------
(* Characters and cells *)

AsciiDigits == {"0", "1", "2", "3", "4", "5", "6", "7", "8", "9"}

\* Characters for which Python's str.isnumeric is true: the ASCII digits and
\* every other code point with a Unicode numeric value, of which the model
\* carries VULGAR FRACTION ONE HALF and SUPERSCRIPT TWO, each written as the
\* name of its code point.
UnicodeNumerics == {"U+00BD", "U+00B2"}

DigitVal(c) ==
    CASE c = "0" -> 0 [] c = "1" -> 1 [] c = "2" -> 2 [] c = "3" -> 3
      [] c = "4" -> 4 [] c = "5" -> 5 [] c = "6" -> 6 [] c = "7" -> 7
      [] c = "8" -> 8 [] c = "9" -> 9

\* A cell of the data frame: a Python str, an int64/float64 number, or NaN
\* (an empty CSV field).
StrCell(s) == [t |-> "str", s |-> s, n |-> 0]
IntCell(n) == [t |-> "int", s |-> <<>>, n |-> n]
FloatCell(s) == [t |-> "float", s |-> s, n |-> 0]
NaNCell == [t |-> "nan", s |-> <<>>, n |-> 0]

AllDigits(s) == s # <<>> /\ \A i \in 1..Len(s) : s[i] \in AsciiDigits

RECURSIVE DigitsVal(_)
DigitsVal(s) ==
    IF s = <<>> THEN 0
    ELSE 10 * DigitsVal(SubSeq(s, 1, Len(s) - 1)) + DigitVal(s[Len(s)])

\* What the CSV tokenizer makes of one field: "empty", "int" (optional sign
\* and ASCII digits), "float" (digits with one decimal point) or "text".
FieldKind(s) ==
    LET body == IF s # <<>> /\ s[1] \in {"-", "+"} THEN Tail(s) ELSE s
        dots == {i \in 1..Len(body) : body[i] = "."}
    IN  IF s = <<>> THEN "empty"
        ELSE IF AllDigits(body) THEN "int"
        ELSE IF /\ Cardinality(dots) = 1
                /\ Len(body) > 1
                /\ \A i \in 1..Len(body) : body[i] \in AsciiDigits \cup {"."}
             THEN "float"
        ELSE "text"

FieldInt(s) ==
    IF s[1] = "-" THEN 0 - DigitsVal(Tail(s))
    ELSE IF s[1] = "+" THEN DigitsVal(Tail(s))
    ELSE DigitsVal(s)

\* Column type inference of pd.read_csv: a column with no rows or with some
\* non-empty field that is not a number is "object"; otherwise it is
\* "int64" when every field is an integer and "float64" when some field is
\* a float or is empty.
InferDtype(fields) ==
    LET kinds == {FieldKind(fields[i]) : i \in 1..Len(fields)}
    IN  IF fields = <<>> \/ "text" \in kinds THEN "object"
        ELSE IF kinds = {"int"} THEN "int64"
        ELSE "float64"

ParseField(s, dtype) ==
    IF s = <<>> THEN NaNCell
    ELSE IF dtype = "object" THEN StrCell(s)
    ELSE IF dtype = "int64" THEN IntCell(FieldInt(s))
    ELSE FloatCell(s)

\* The DataFrame of pd.read_csv: one record per CSV line, idx the row label.
\* cols are the columns the file has; the cells of a column it lacks are
\* placeholders that no step reads (selecting the column is a KeyError).
ReadFrame(raw, cols) ==
    LET mlType == InferDtype([i \in 1..Len(raw) |-> raw[i].ml])
        gasType == InferDtype([i \in 1..Len(raw) |-> raw[i].gas])
    IN  [i \in 1..Len(raw) |->
            [idx |-> i,
             ml |-> IF "Message Length" \in cols
                    THEN ParseField(raw[i].ml, mlType) ELSE NaNCell,
             gas |-> IF "Gas Used" \in cols
                     THEN ParseField(raw[i].gas, gasType) ELSE NaNCell]]

\* dtype of the "Message Length" column of a frame, which decides whether
\* the .str accessor can be used: only on object columns.
MlDtype(frame) ==
    IF frame = <<>> \/ \E i \in 1..Len(frame) : frame[i].ml.t = "str"
    THEN "object"
    ELSE IF \A i \in 1..Len(frame) : frame[i].ml.t = "int" THEN "int64"
    ELSE "float64"

\* str.isnumeric on one element of an object column: "T", "F", or "NA" for
\* a missing value.
IsNumericChar(c) == c \in AsciiDigits \cup UnicodeNumerics

StrIsNumeric(cell) ==
    IF cell.t = "nan" THEN "NA"
    ELSE IF cell.s # <<>> /\ \A i \in 1..Len(cell.s) : IsNumericChar(cell.s[i])
         THEN "T" ELSE "F"

\* Boolean indexing df[mask] and df[~mask]: rows kept in frame order.
SelectNumeric(frame) ==
    SelectSeq(frame, LAMBDA r : StrIsNumeric(r.ml) = "T")

\* Line 82 without its negation.
SelectNotNumericUnnegated(frame) ==
    SelectSeq(frame, LAMBDA r : StrIsNumeric(r.ml) = "T")

SelectNotNumeric(frame) ==
    SelectSeq(frame, LAMBDA r : StrIsNumeric(r.ml) # "T")

\* A mask holding a missing value cannot index the frame (object-dtype
\* columns, where str.isnumeric of NaN is NaN): df[mask] is a ValueError.
MaskHasNA(frame) == \E i \in 1..Len(frame) : StrIsNumeric(frame[i].ml) = "NA"

\* pd.to_numeric on one element: numbers pass through, strings of ASCII
\* digits (with optional sign) become integers, anything else is an error.
CanToNumeric(cell) ==
    \/ cell.t \in {"int", "float", "nan"}
    \/ cell.t = "str" /\ FieldKind(cell.s) \in {"int", "float"}

ToNumeric(cell) ==
    IF cell.t = "str"
    THEN IF FieldKind(cell.s) = "int" THEN IntCell(FieldInt(cell.s))
         ELSE FloatCell(cell.s)
    ELSE cell

----------------------------------------------------------------------------
(* Exact rational arithmetic for the regression *)

RECURSIVE Gcd(_, _)
Gcd(a, b) == IF b = 0 THEN a ELSE Gcd(b, a % b)

Abs(a) == IF a < 0 THEN 0 - a ELSE a

\* The rational n/d (d # 0) in lowest terms with a positive denominator.
Rat(n, d) ==
    LET g == Gcd(Abs(n), Abs(d))
        sgn == IF d < 0 THEN 0 - 1 ELSE 1
    IN  [num |-> sgn * (n \div g), den |-> sgn * (d \div g)]

RatMul(p, q) ==
    LET a == Rat(p.num, q.den)
        b == Rat(q.num, p.den)
    IN  Rat(a.num * b.num, a.den * b.den)

RatSub(p, q) == Rat(p.num * q.den - q.num * p.den, p.den * q.den)

Zero == Rat(0, 1)

RECURSIVE Sum(_)
Sum(q) == IF q = <<>> THEN 0 ELSE Head(q) + Sum(Tail(q))

\* linregress called with its two arguments exchanged.
PointsSwapped(rows) == [i \in 1..Len(rows) |-> [x |-> rows[i].gas.n, y |-> rows[i].ml.n]]

\* The (x, y) data handed to stats.linregress: the two converted columns.
Points(rows) == [i \in 1..Len(rows) |-> [x |-> rows[i].ml.n, y |-> rows[i].gas.n]]

SumX(pts) == Sum([i \in 1..Len(pts) |-> pts[i].x])
SumY(pts) == Sum([i \in 1..Len(pts) |-> pts[i].y])

\* n^2 times the population (co)variances that linregress takes from np.cov.
Ssxm(pts) ==
    Len(pts) * Sum([i \in 1..Len(pts) |-> pts[i].x * pts[i].x]) - SumX(pts) * SumX(pts)

Ssym(pts) ==
    Len(pts) * Sum([i \in 1..Len(pts) |-> pts[i].y * pts[i].y]) - SumY(pts) * SumY(pts)

Ssxym(pts) ==
    Len(pts) * Sum([i \in 1..Len(pts) |-> pts[i].x * pts[i].y]) - SumX(pts) * SumY(pts)

NoFit == [status |-> "none", slope |-> Zero, intercept |-> Zero, rsq |-> Zero]

\* Whether stats.linregress may refuse the data: all x identical with more
\* than one point (a ValueError in current SciPy releases; older releases
\* return NaN instead).
LinRegressMayRaise(pts) == Len(pts) > 1 /\ Ssxm(pts) = 0

\* A regression whose intercept is ymean - slope, the factor xmean lost.
LinRegressNoXMean(pts) ==
    LET n == Len(pts)
        sy == SumY(pts)
        slope == Rat(Ssxym(pts), Ssxm(pts))
    IN  IF Ssxm(pts) = 0
        THEN [status |-> "nan", slope |-> Zero, intercept |-> Zero, rsq |-> Zero]
        ELSE [status |-> "ok",
              slope |-> slope,
              intercept |-> RatSub(Rat(sy, n), slope),
              rsq |-> IF Ssym(pts) = 0 THEN Zero
                      ELSE RatMul(slope, Rat(Ssxym(pts), Ssym(pts)))]

\* The result of stats.linregress(x, y) when it returns:
\*   slope = ssxym / ssxm, intercept = ymean - slope * xmean,
\*   r = 0 if ssxm = 0 or ssym = 0, else ssxym / sqrt(ssxm * ssym);
\* a zero ssxm makes slope and intercept NaN.  rsq is r ** 2.
LinRegress(pts) ==
    LET n == Len(pts)
        sx == SumX(pts)
        sy == SumY(pts)
        slope == Rat(Ssxym(pts), Ssxm(pts))
    IN  IF Ssxm(pts) = 0
        THEN [status |-> "nan", slope |-> Zero, intercept |-> Zero, rsq |-> Zero]
        ELSE [status |-> "ok",
              slope |-> slope,
              intercept |-> RatSub(Rat(sy, n), RatMul(slope, Rat(sx, n))),
              rsq |-> IF Ssym(pts) = 0 THEN Zero
                      ELSE RatMul(slope, Rat(Ssxym(pts), Ssym(pts)))]

\* Python's fixed-point formatting f"{v:.2f}" / f"{v:.4f}" of a rational:
\* the value in units of 10^-digits, rounded half to even.
Pow10(digits) == IF digits = 2 THEN 100 ELSE 10000

Fmt(q, digits) ==
    LET scaled == q.num * Pow10(digits)
        fl == scaled \div q.den
        rem2 == 2 * (scaled - fl * q.den)
    IN  IF rem2 > q.den THEN fl + 1
        ELSE IF rem2 < q.den THEN fl
        ELSE IF fl % 2 = 0 THEN fl ELSE fl + 1

\* One printed line: its fixed text and, for a value line, the formatted
\* value ("nan" prints as nan).
TextLine(text) == [text |-> text, nan |-> FALSE, val |-> 0]

ValueLine(text, fit, q, digits) ==
    [text |-> text, nan |-> (fit.status = "nan"), val |-> IF fit.status = "nan" THEN 0 ELSE Fmt(q, digits)]

\* r_value is 0.0, not NaN, when the slope is NaN.
RsqLine(fit) == [text |-> "R-squared", nan |-> FALSE, val |-> Fmt(fit.rsq, 4)]

FullReportLines(fit) ==
    << TextLine("Gas Regression Analysis:"),
       ValueLine("Base gas cost", fit, fit.intercept, 2),
       ValueLine("Marginal cost per byte", fit, fit.slope, 2),
       RsqLine(fit) >>

SmallReportLines(fit) ==
    << TextLine("Small Message Analysis"),
       ValueLine("Base gas cost", fit, fit.intercept, 2),
       ValueLine("Marginal cost per byte", fit, fit.slope, 2),
       RsqLine(fit) >>

DumpLines(rows) ==
    << TextLine("Special Format Analysis:") >>
        \o [i \in 1..Len(rows) |-> [text |-> "row", nan |-> FALSE, val |-> rows[i].idx]]

\* numeric_rows[numeric_rows['Message Length'] <= 200]
SmallLimit == 200

\* The subset taken with the comparison turned round.
SelectSmallInverted(rows) == SelectSeq(rows, LAMBDA r : r.ml.n >= SmallLimit)

SelectSmall(rows) == SelectSeq(rows, LAMBDA r : r.ml.n <= SmallLimit)

\* The orders sort_values('Message Length') may leave the rows in: ascending
\* by length; the default quicksort is not stable, so rows of equal length
\* may come out in any relative order.
IsSortedByLength(rows) ==
    \A i \in 1..(Len(rows) - 1) : rows[i].ml.n <= rows[i + 1].ml.n

RowOrders(rows) ==
    LET n == Len(rows)
    IN  {[i \in 1..n |-> rows[f[i]]] :
            f \in {g \in [1..n -> 1..n] : \A i, j \in 1..n : g[i] = g[j] => i = j}}

SortedOrders(rows) == {p \in RowOrders(rows) : IsSortedByLength(p)}

----------------------------------------------------------------------------
(* Inputs: the CSV files the runs are checked on *)

RawRow(ml, gas) == [ml |-> ml, gas |-> gas]

T10 == <<"1", "0">>
T50 == <<"5", "0">>
T100 == <<"1", "0", "0">>
T250 == <<"2", "5", "0">>
T300 == <<"3", "0", "0">>
TAbcTest == <<"a", "b", "c", "-", "t", "e", "s", "t">>
TMinus5 == <<"-", "5">>
THalf == <<"U+00BD">>
TEmpty == <<>>
G1200 == <<"1", "2", "0", "0">>
G1500 == <<"1", "5", "0", "0">>
G3700 == <<"3", "7", "0", "0">>
G6200 == <<"6", "2", "0", "0">>
GBad == <<"n", "/", "a">>

RowPool ==
    { RawRow(T10, G1200), RawRow(T50, G3700), RawRow(T100, G6200),
      RawRow(TAbcTest, G1500), RawRow(T250, G3700), RawRow(T300, G6200),
      RawRow(THalf, G1200), RawRow(TEmpty, G1500), RawRow(T10, GBad),
      RawRow(TMinus5, G1200) }

RECURSIVE SeqsUpTo(_, _)
SeqsUpTo(S, n) ==
    IF n = 0 THEN {<<>>}
    ELSE LET shorter == SeqsUpTo(S, n - 1)
         IN  shorter \cup {Append(q, e) : q \in {r \in shorter : Len(r) = n - 1}, e \in S}

Inputs == SeqsUpTo(RowPool, MaxRows)

AllColumns == {"Message Length", "Gas Used"}

ColumnSets == {AllColumns, {"Gas Used"}, {"Message Length"}}

----------------------------------------------------------------------------
(* The run *)

Init ==
    /\ pc = "read"
    /\ df = <<>>
    /\ columns = {}
    /\ numeric_rows = <<>>
    /\ fullFit = NoFit
    /\ small_df = <<>>
    /\ smallFit = NoFit
    /\ format_rows = <<>>
    /\ figure = {}
    /\ imageWrites = 0
    /\ stdout = <<>>
    /\ fitCalls = <<>>
    /\ error = "none"

Fail(exc) ==
    /\ pc' = "failed"
    /\ error' = exc

\* line 7: df = pd.read_csv('gas_results.csv')
ReadCsv ==
    /\ pc = "read"
    /\ \E raw \in Inputs, cols \in ColumnSets :
          /\ df' = ReadFrame(raw, cols)
          /\ columns' = cols
    /\ pc' = "filter"
    /\ UNCHANGED <<numeric_rows, fullFit, small_df, smallFit, format_rows,
                   figure, imageWrites, stdout, fitCalls, error>>

\* line 7, file missing or unreadable
ReadCsvFail ==
    /\ pc = "read"
    /\ Fail("IOError")
    /\ UNCHANGED <<df, columns, numeric_rows, fullFit, small_df, smallFit,
                   format_rows, figure, imageWrites, stdout, fitCalls>>

\* The exception line 10 (and line 82) raises on a frame, or "none".
FilterError(frame, cols) ==
    IF "Message Length" \notin cols THEN "KeyError"
    ELSE IF MlDtype(frame) # "object" THEN "AttributeError"
    ELSE IF MaskHasNA(frame) THEN "ValueError"
    ELSE "none"

\* line 10: numeric_rows = df[df['Message Length'].str.isnumeric()]
Filter ==
    /\ pc = "filter"
    /\ FilterError(df, columns) = "none"
    /\ numeric_rows' = SelectNumeric(df)
    /\ pc' = "gate"
    /\ UNCHANGED <<df, columns, fullFit, small_df, smallFit, format_rows,
                   figure, imageWrites, stdout, fitCalls, error>>

FilterFail ==
    /\ pc = "filter"
    /\ FilterError(df, columns) # "none"
    /\ Fail(FilterError(df, columns))
    /\ UNCHANGED <<df, columns, numeric_rows, fullFit, small_df, smallFit,
                   format_rows, figure, imageWrites, stdout, fitCalls>>

\* line 12: if not numeric_rows.empty:
\* A gate that asks for two rows.
FullGateTwoRows(rows) == Len(rows) >= 2

FullGate(rows) == rows # <<>>

Gate ==
    /\ pc = "gate"
    /\ pc' = IF FullGate(numeric_rows) THEN "conv_len" ELSE "format"
    /\ UNCHANGED <<df, columns, numeric_rows, fullFit, small_df, smallFit,
                   format_rows, figure, imageWrites, stdout, fitCalls, error>>

\* line 14: numeric_rows['Message Length'] = pd.to_numeric(...)
ConvLen ==
    /\ pc = "conv_len"
    /\ \A i \in 1..Len(numeric_rows) : CanToNumeric(numeric_rows[i].ml)
    /\ numeric_rows' = [i \in 1..Len(numeric_rows) |->
                          [numeric_rows[i] EXCEPT !.ml = ToNumeric(@)]]
    /\ pc' = "conv_gas"
    /\ UNCHANGED <<df, columns, fullFit, small_df, smallFit, format_rows,
                   figure, imageWrites, stdout, fitCalls, error>>

ConvLenFail ==
    /\ pc = "conv_len"
    /\ \E i \in 1..Len(numeric_rows) : ~CanToNumeric(numeric_rows[i].ml)
    /\ Fail("ValueError")
    /\ UNCHANGED <<df, columns, numeric_rows, fullFit, small_df, smallFit,
                   format_rows, figure, imageWrites, stdout, fitCalls>>

\* line 15: numeric_rows['Gas Used'] = pd.to_numeric(numeric_rows['Gas Used'])
ConvGasError(rows, cols) ==
    IF "Gas Used" \notin cols THEN "KeyError"
    ELSE IF \E i \in 1..Len(rows) : ~CanToNumeric(rows[i].gas) THEN "ValueError"
    ELSE "none"

ConvGas ==
    /\ pc = "conv_gas"
    /\ ConvGasError(numeric_rows, columns) = "none"
    /\ numeric_rows' = [i \in 1..Len(numeric_rows) |->
                          [numeric_rows[i] EXCEPT !.gas = ToNumeric(@)]]
    /\ pc' = "sort"
    /\ UNCHANGED <<df, columns, fullFit, small_df, smallFit, format_rows,
                   figure, imageWrites, stdout, fitCalls, error>>

ConvGasFail ==
    /\ pc = "conv_gas"
    /\ ConvGasError(numeric_rows, columns) # "none"
    /\ Fail(ConvGasError(numeric_rows, columns))
    /\ UNCHANGED <<df, columns, numeric_rows, fullFit, small_df, smallFit,
                   format_rows, figure, imageWrites, stdout, fitCalls>>

\* line 18: numeric_rows = numeric_rows.sort_values('Message Length')
Sort ==
    /\ pc = "sort"
    /\ numeric_rows' \in SortedOrders(numeric_rows)
    /\ pc' = "fit"
    /\ UNCHANGED <<df, columns, fullFit, small_df, smallFit, format_rows,
                   figure, imageWrites, stdout, fitCalls, error>>

\* lines 21-23: stats.linregress over all numeric rows
FullFit ==
    /\ pc = "fit"
    /\ fitCalls' = Append(fitCalls, "full")
    /\ fullFit' = LinRegress(Points(numeric_rows))
    /\ pc' = "plot_main"
    /\ UNCHANGED <<df, columns, numeric_rows, small_df, smallFit, format_rows,
                   figure, imageWrites, stdout, error>>

FullFitRaise ==
    /\ pc = "fit"
    /\ LinRegressMayRaise(Points(numeric_rows))
    /\ fitCalls' = Append(fitCalls, "full")
    /\ Fail("ValueError")
    /\ UNCHANGED <<df, columns, numeric_rows, fullFit, small_df, smallFit,
                   format_rows, figure, imageWrites, stdout>>

\* The first panel with the report of lines 70-73 printed right after it,
\* ahead of savefig.
PlotMainThenPrint ==
    /\ pc = "plot_main"
    /\ figure' = figure \cup {"main_scatter", "main_line"}
    /\ stdout' = stdout \o FullReportLines(fullFit)
    /\ pc' = "small_gate"
    /\ UNCHANGED <<df, columns, numeric_rows, fullFit, small_df, smallFit,
                   format_rows, imageWrites, fitCalls, error>>

\* lines 26-44: the first panel, then the second subplot is selected
PlotMain ==
    /\ pc = "plot_main"
    /\ figure' = figure \cup {"main_scatter", "main_line"}
    /\ pc' = "small_gate"
    /\ UNCHANGED <<df, columns, numeric_rows, fullFit, small_df, smallFit,
                   format_rows, imageWrites, stdout, fitCalls, error>>

\* line 47 / line 75: if not small_df.empty:
SmallGateOpen(rows) == rows # <<>>

\* lines 45-47
SmallGate ==
    /\ pc = "small_gate"
    /\ small_df' = SelectSmall(numeric_rows)
    /\ pc' = IF SmallGateOpen(SelectSmall(numeric_rows)) THEN "small_fit" ELSE "savefig"
    /\ UNCHANGED <<df, columns, numeric_rows, fullFit, smallFit, format_rows,
                   figure, imageWrites, stdout, fitCalls, error>>

\* lines 49-51
SmallFit ==
    /\ pc = "small_fit"
    /\ fitCalls' = Append(fitCalls, "small")
    /\ smallFit' = LinRegress(Points(small_df))
    /\ pc' = "small_plot"
    /\ UNCHANGED <<df, columns, numeric_rows, fullFit, small_df, format_rows,
                   figure, imageWrites, stdout, error>>

SmallFitRaise ==
    /\ pc = "small_fit"
    /\ LinRegressMayRaise(Points(small_df))
    /\ fitCalls' = Append(fitCalls, "small")
    /\ Fail("ValueError")
    /\ UNCHANGED <<df, columns, numeric_rows, fullFit, small_df, smallFit,
                   format_rows, figure, imageWrites, stdout>>

\* lines 53-64
SmallPlot ==
    /\ pc = "small_plot"
    /\ figure' = figure \cup {"small_scatter", "small_line"}
    /\ pc' = "savefig"
    /\ UNCHANGED <<df, columns, numeric_rows, fullFit, small_df, smallFit,
                   format_rows, imageWrites, stdout, fitCalls, error>>

\* lines 66-67: plt.tight_layout(); plt.savefig('gas_analysis.png')
SaveFig ==
    /\ pc = "savefig"
    /\ imageWrites' = imageWrites + 1
    /\ pc' = "report"
    /\ UNCHANGED <<df, columns, numeric_rows, fullFit, small_df, smallFit,
                   format_rows, figure, stdout, fitCalls, error>>

\* line 67, output path not writable
SaveFigFail ==
    /\ pc = "savefig"
    /\ Fail("IOError")
    /\ UNCHANGED <<df, columns, numeric_rows, fullFit, small_df, smallFit,
                   format_rows, figure, imageWrites, stdout, fitCalls>>

\* lines 70-73
Report ==
    /\ pc = "report"
    /\ stdout' = stdout \o FullReportLines(fullFit)
    /\ pc' = "small_report"
    /\ UNCHANGED <<df, columns, numeric_rows, fullFit, small_df, smallFit,
                   format_rows, figure, imageWrites, fitCalls, error>>

\* lines 75-79
SmallReport ==
    /\ pc = "small_report"
    /\ stdout' = IF SmallGateOpen(small_df)
                 THEN stdout \o SmallReportLines(smallFit) ELSE stdout
    /\ pc' = "format"
    /\ UNCHANGED <<df, columns, numeric_rows, fullFit, small_df, smallFit,
                   format_rows, figure, imageWrites, fitCalls, error>>

\* line 82: format_rows = df[~df['Message Length'].str.isnumeric()]
Format ==
    /\ pc = "format"
    /\ FilterError(df, columns) = "none"
    /\ format_rows' = SelectNotNumeric(df)
    /\ pc' = "dump"
    /\ UNCHANGED <<df, columns, numeric_rows, fullFit, small_df, smallFit,
                   figure, imageWrites, stdout, fitCalls, error>>

\* lines 83-85
Dump ==
    /\ pc = "dump"
    /\ stdout' = IF format_rows # <<>> THEN stdout \o DumpLines(format_rows) ELSE stdout
    /\ pc' = "done"
    /\ UNCHANGED <<df, columns, numeric_rows, fullFit, small_df, smallFit,
                   format_rows, figure, imageWrites, fitCalls, error>>

Next ==
    \/ ReadCsv \/ ReadCsvFail
    \/ Filter \/ FilterFail
    \/ Gate
    \/ ConvLen \/ ConvLenFail
    \/ ConvGas \/ ConvGasFail
    \/ Sort
    \/ FullFit \/ FullFitRaise
    \/ PlotMain
    \/ SmallGate
    \/ SmallFit \/ SmallFitRaise
    \/ SmallPlot
    \/ SaveFig \/ SaveFigFail
    \/ Report
    \/ SmallReport
    \/ Format
    \/ Dump

Spec == Init /\ [][Next]_vars

TypeOK == pc \in {"read", "filter", "gate", "conv_len", "conv_gas", "sort", "fit",
                  "plot_main", "small_gate", "small_fit", "small_plot", "savefig",
                  "report", "small_report", "format", "dump", "done", "failed"}

----------------------------------------------------------------------------
(* The regression on its own: stats.linregress applied to exactly linear   *)
(* data gas = a + b * length, rows in every order.                         *)

LenVals == {0, 10, 50, 100}
CoefA == {0, 1000}
CoefB == {0, 50, 0 - 3}

LinearRows(xs, a, b) ==
    [i \in 1..Len(xs) |->
        [idx |-> i, ml |-> IntCell(xs[i]), gas |-> IntCell(a + b * xs[i])]]

InitFit ==
    /\ pc = "fit"
    /\ df = <<>>
    /\ columns = AllColumns
    /\ \E xs \in SeqsUpTo(LenVals, MaxPts) \ {<<>>}, a \in CoefA, b \in CoefB :
          numeric_rows = LinearRows(xs, a, b)
    /\ fullFit = NoFit
    /\ small_df = <<>>
    /\ smallFit = NoFit
    /\ format_rows = <<>>
    /\ figure = {}
    /\ imageWrites = 0
    /\ stdout = <<>>
    /\ fitCalls = <<>>
    /\ error = "none"

NextFit == FullFit \/ FullFitRaise

SpecFit == InitFit /\ [][NextFit]_vars

----------------------------------------------------------------------------
(* Observations on a state *)

HasLine(text) == \E i \in 1..Len(stdout) : stdout[i].text = text

LinesOf(text) == {i \in 1..Len(stdout) : stdout[i].text = text}

RegressionLineTexts ==
    {"Gas Regression Analysis:", "Small Message Analysis", "Base gas cost",
     "Marginal cost per byte", "R-squared"}

IdxSet(rows) == {rows[i].idx : i \in 1..Len(rows)}

FullFitInvoked == \E i \in 1..Len(fitCalls) : fitCalls[i] = "full"
SmallFitInvoked == \E i \in 1..Len(fitCalls) : fitCalls[i] = "small"

\* The positions after line 10 has produced numeric_rows.
Partitioned == pc \notin {"read", "filter"} /\ ~(pc = "failed" /\ numeric_rows = <<>>)

\* The small-message gate (lines 45-47) has been passed.
PastSmallGate == "main_line" \in figure /\ pc # "small_gate"

----------------------------------------------------------------------------
(* Claims *)

C2_SkipOnInsufficient ==
    (Partitioned /\ Len(numeric_rows) <= 1) =>
        /\ ~FullFitInvoked
        /\ fullFit = NoFit
        /\ "main_line" \notin figure
        /\ ~HasLine("Gas Regression Analysis:")
        /\ (pc = "done" /\ format_rows # <<>> => HasLine("Special Format Analysis:"))

\* C3 (as claimed): a finished run whose numeric rows hold no row of length
\* <= 200 has not invoked the small fit, has no small fit line and no
\* small-message section, and has saved the image and printed the full
\* report.
C3_SkipOnEmptyAsClaimed ==
    (/\ pc = "done"
     /\ df # <<>>
     /\ columns = AllColumns
     /\ \A i \in 1..Len(numeric_rows) : numeric_rows[i].ml.n > 200) =>
        /\ ~SmallFitInvoked
        /\ "small_line" \notin figure
        /\ ~HasLine("Small Message Analysis")
        /\ imageWrites = 1
        /\ HasLine("Gas Regression Analysis:")

\* C3 (amended): when the numeric rows are non-empty, none of them has
\* length <= 200 and the run has passed the small-message gate, the small
\* fit has not been invoked, no small fit line is plotted, no small-message
\* section is printed, the gate itself raised nothing (the only failure
\* still possible is the image write), and once the image is saved the full
\* report follows.
C3_SkipOnEmpty ==
    (/\ PastSmallGate
     /\ numeric_rows # <<>>
     /\ \A i \in 1..Len(numeric_rows) : numeric_rows[i].ml.n > 200) =>
        /\ ~SmallFitInvoked
        /\ smallFit = NoFit
        /\ figure = {"main_scatter", "main_line"}
        /\ ~HasLine("Small Message Analysis")
        /\ pc \in {"savefig", "report", "small_report", "format", "dump", "done", "failed"}
        /\ (pc = "failed" => error = "IOError" /\ imageWrites = 0)
        /\ (pc \in {"report", "small_report", "format", "dump", "done"} => imageWrites = 1)
        /\ (pc \in {"small_report", "format", "dump", "done"} =>
                HasLine("Gas Regression Analysis:"))

C3_Witness ==
    /\ pc = "done"
    /\ Len(numeric_rows) = 2
    /\ \A i \in 1..Len(numeric_rows) : numeric_rows[i].ml.n > 200
    /\ fullFit.status = "ok"
    /\ imageWrites = 1
    /\ HasLine("Gas Regression Analysis:")

\* C4: a run that has ended in a failure has printed nothing (no report
\* line, no special-format section) and has written no image.
C4_NoPartialOutput ==
    pc = "failed" => stdout = <<>> /\ imageWrites = 0

C4_Witness ==
    /\ pc = "failed"
    /\ error = "IOError"
    /\ "main_line" \in figure
    /\ "small_line" \in figure

\* C5 (as claimed): every run that completes has written the image exactly
\* once, whatever the input.
C5_ExactlyOneImageAsClaimed ==
    (pc = "done" /\ df # <<>> /\ columns = AllColumns) => imageWrites = 1

\* C5 (amended): no run writes the image more than once; a run that
\* completes has written it exactly once when the input has a numeric row
\* and not at all when it has none.
C5_ImagePerNumericData ==
    /\ imageWrites <= 1
    /\ pc = "done" => imageWrites = (IF SelectNumeric(df) # <<>> THEN 1 ELSE 0)

C5_Witness ==
    /\ pc = "done"
    /\ imageWrites = 1
    /\ Len(numeric_rows) = 1

ExampleRaw ==
    << RawRow(T10, G1200), RawRow(T50, G3700), RawRow(T100, G6200),
       RawRow(TAbcTest, G1500) >>

ExampleFrame == ReadFrame(ExampleRaw, AllColumns)

ReportValue(text) == stdout[CHOOSE i \in LinesOf(text) : \A j \in LinesOf(text) : i <= j]

\* C6 (as claimed): on the example input there are 3 numeric rows and 1
\* special row and the full fit has slope 50, intercept 700 and an
\* r_squared that prints as 1.0000.
C6_ExampleAsClaimed ==
    (df = ExampleFrame /\ columns = AllColumns /\ pc = "done") =>
        /\ Len(numeric_rows) = 3
        /\ Len(format_rows) = 1
        /\ fullFit.slope = Rat(50, 1)
        /\ fullFit.intercept = Rat(700, 1)
        /\ Fmt(fullFit.rsq, 4) = 10000

\* C6 (amended): on the example input there are 3 numeric rows and 1 special
\* row (abc-test); the three points are not collinear and the full fit has
\* slope 3375/61 (printed 55.33), intercept 45700/61 (printed 749.18) and
\* r_squared 1215/1220 (printed 0.9959).
C6_Example ==
    (df = ExampleFrame /\ columns = AllColumns /\ pc = "done") =>
        /\ Len(numeric_rows) = 3
        /\ Len(format_rows) = 1
        /\ format_rows[1].ml = StrCell(TAbcTest)
        /\ fullFit.status = "ok"
        /\ fullFit.slope = Rat(3375, 61)
        /\ fullFit.intercept = Rat(45700, 61)
        /\ fullFit.rsq = Rat(1215, 1220)
        /\ ReportValue("Marginal cost per byte").val = 5533
        /\ ReportValue("Base gas cost").val = 74918
        /\ ReportValue("R-squared").val = 9959

C6_Witness ==
    /\ df = ExampleFrame
    /\ columns = AllColumns
    /\ pc = "done"
    /\ fullFit.status = "ok"

\* C7 (as claimed): a row is in numeric_rows exactly when its length text is
\* a non-empty string of ASCII digits; every other row stays out of
\* numeric_rows and so never reaches pd.to_numeric.
C7_AsciiDigitPredicate ==
    (Partitioned /\ columns = AllColumns) =>
        \A i \in 1..Len(df) :
            (df[i].idx \in IdxSet(numeric_rows)) <=>
                (df[i].ml.t = "str" /\ AllDigits(df[i].ml.s))

IsLinear(rows, a, b) ==
    \A i \in 1..Len(rows) : rows[i].gas.n = a + b * rows[i].ml.n

DistinctLengths(rows) == Cardinality({rows[i].ml.n : i \in 1..Len(rows)})

\* C8 (as claimed): on at least two rows with at least two distinct lengths
\* and gas = a + b * length, the fit returns intercept a, slope b and
\* r_squared 1, whatever the order of the rows.
C8_ExactLinearAsClaimed ==
    \A a \in CoefA, b \in CoefB :
        (/\ pc = "plot_main"
         /\ DistinctLengths(numeric_rows) >= 2
         /\ IsLinear(numeric_rows, a, b)) =>
            /\ fullFit.status = "ok"
            /\ fullFit.intercept = Rat(a, 1)
            /\ fullFit.slope = Rat(b, 1)
            /\ fullFit.rsq = Rat(1, 1)

\* C8 (amended): on at least two rows with at least two distinct lengths and
\* gas = a + b * length, the fit returns intercept a and slope b, whatever
\* the order of the rows, and r_squared 1 when b # 0; when b = 0 (constant
\* gas) r_squared is 0.
C8_ExactLinear ==
    \A a \in CoefA, b \in CoefB :
        (/\ pc = "plot_main"
         /\ DistinctLengths(numeric_rows) >= 2
         /\ IsLinear(numeric_rows, a, b)) =>
            /\ fullFit.status = "ok"
            /\ fullFit.intercept = Rat(a, 1)
            /\ fullFit.slope = Rat(b, 1)
            /\ fullFit.rsq = (IF b = 0 THEN Zero ELSE Rat(1, 1))
            /\ \A p \in RowOrders(numeric_rows) : LinRegress(Points(p)) = fullFit

C8_Witness ==
    /\ pc = "plot_main"
    /\ Len(numeric_rows) = 3
    /\ DistinctLengths(numeric_rows) = 3
    /\ IsLinear(numeric_rows, 1000, 50)
    /\ \E i \in 1..2 : numeric_rows[i].ml.n > numeric_rows[i + 1].ml.n
    /\ fullFit.slope = Rat(50, 1)

\* C9 (as claimed): when exactly one of two or more numeric rows has length
\* <= 200, the small-message fit is not invoked and its line and its report
\* section are absent.
C9_SmallSubsetOfOneSkipped ==
    (/\ PastSmallGate
     /\ Len(numeric_rows) >= 2
     /\ Cardinality({i \in 1..Len(numeric_rows) : numeric_rows[i].ml.n <= 200}) = 1) =>
        /\ ~SmallFitInvoked
        /\ "small_line" \notin figure
        /\ ~HasLine("Small Message Analysis")

AllNumericInput ==
    /\ df # <<>>
    /\ columns = AllColumns
    /\ \A i \in 1..Len(df) : df[i].ml.t = "int" /\ df[i].ml.n >= 0 /\ df[i].gas.t = "int"
    /\ Cardinality({df[i].ml.n : i \in 1..Len(df)}) >= 2

\* C10 (as claimed): a finished run has printed the special-format section
\* exactly when special rows exist, after every regression report line; and
\* a run on an input whose rows are all numeric (with two distinct lengths
\* to fit) fails only on file input/output, and when it ends it has printed
\* the regression report and no special-format section.
C10_DumpGatedOnSpecialRows ==
    /\ pc = "done" =>
          /\ HasLine("Special Format Analysis:") <=> (SelectNotNumeric(df) # <<>>)
          /\ \A i \in LinesOf("Special Format Analysis:"), j \in 1..Len(stdout) :
                stdout[j].text \in RegressionLineTexts => j < i
    /\ AllNumericInput /\ pc = "failed" => error = "IOError"
    /\ AllNumericInput /\ pc = "done" =>
          HasLine("Gas Regression Analysis:") /\ ~HasLine("Special Format Analysis:")

====
